---------------------------- MODULE Spec2Model ----------------------------
(***************************************************************************)
(* A model of tago (src/tago.go): the struct-tag parser GetFromField, the  *)
(* type unwrapper typeToElem, the extractors Get / GetNested (with the     *)
(* recursion of getNested made explicit as a call stack), the dispatchers  *)
(* Apply / ApplyOne and the membership query Has.                          *)
(*                                                                         *)
(* Go strings are sequences of one-character strings, so that splitting,   *)
(* trimming, joining and prefixing are computed as the code computes them. *)
(***************************************************************************)
EXTENDS Integers, Sequences, FiniteSets, TLC

VARIABLES
    op,           \* the exported operation being run
    pc,           \* position of the running operation
    raw,          \* GetFromField: the raw tag text of the field being parsed
    tags,         \* GetFromField: the Instructions it returned
    instr,        \* the instruction parsed again as a raw tag
    again,        \* GetFromField: the Instructions returned for instr
    tyIn,         \* typeToElem: its argument
    tyOut,        \* typeToElem: its result
    instructions, \* Apply/ApplyOne: the Instructions argument
    mapping,      \* Apply: the keys of instructionMapping; ApplyOne: {instructionToCheck}
    todo,         \* Apply: keys of instructionMapping the range has not yet produced
    cur,          \* Apply/ApplyOne: the instruction whose fields are being ranged over
    rest,         \* Apply/ApplyOne: the fields the inner range has not yet produced
    calls,        \* the invocations of the actions so far: <<instruction, field>>
    types,        \* the struct types of the program: type -> its fields in order
    model,        \* Get/GetNested/Has: the reflect.Type of the model argument
    separator,    \* GetNested: the separator argument
    query,        \* Has: instructionToCheck
    stack,        \* the activations of Get or getNested, innermost last
    result,       \* Get/GetNested: the Instructions returned
    exists        \* Has: the value returned

parserVars == <<raw, tags, instr, again>>

typeVars == <<tyIn, tyOut>>

applyVars == <<instructions, mapping, todo, cur, rest, calls>>

walkVars == <<types, model, separator, query, stack, result, exists>>

vars == <<op, pc, parserVars, typeVars, applyVars, walkVars>>

-----------------------------------------------------------------------------
(* Bounds of the model *)

\* longest raw tag text the parser is run on
MaxLen == 5

\* characters of a raw tag: a letter, the two separators and a blank
Chars == {"a", "=", ";", " "}

\* every string over Chars of length at most n
StringsUpTo(n) == UNION {[1..k -> Chars] : k \in 0..n}

-----------------------------------------------------------------------------
(* package strings *)

\* position of the first occurrence of character c in s, 0 when absent
IndexOf(s, c) ==
    IF \E k \in 1..Len(s) : s[k] = c
    THEN CHOOSE k \in 1..Len(s) : s[k] = c /\ \A j \in 1..(k-1) : s[j] # c
    ELSE 0

RECURSIVE Split(_, _)
\* strings.Split / strings.SplitSeq: all substrings between occurrences of c
Split(s, c) ==
    LET k == IndexOf(s, c) IN
    IF k = 0 THEN <<s>>
    ELSE <<SubSeq(s, 1, k-1)>> \o Split(SubSeq(s, k+1, Len(s)), c)

\* strings.SplitN(s, c, 2): at most two parts, cut at the first c
SplitN2(s, c) ==
    LET k == IndexOf(s, c) IN
    IF k = 0 THEN <<s>>
    ELSE <<SubSeq(s, 1, k-1), SubSeq(s, k+1, Len(s))>>

IsSpace(ch) == ch = " "

\* strings.TrimSpace: drop all leading and all trailing white space
TrimSpace(s) ==
    IF \A k \in 1..Len(s) : IsSpace(s[k]) THEN <<>>
    ELSE LET lo == CHOOSE k \in 1..Len(s) :
                       ~IsSpace(s[k]) /\ \A j \in 1..(k-1) : IsSpace(s[j])
             hi == CHOOSE k \in 1..Len(s) :
                       ~IsSpace(s[k]) /\ \A j \in (k+1)..Len(s) : IsSpace(s[j])
         IN  SubSeq(s, lo, hi)

RECURSIVE Join(_, _)
\* strings.Join: the parts with sep between consecutive ones
Join(parts, sep) ==
    IF Len(parts) = 0 THEN <<>>
    ELSE IF Len(parts) = 1 THEN parts[1]
    ELSE parts[1] \o sep \o Join(Tail(parts), sep)

-----------------------------------------------------------------------------
(* Instructions: map[Instruction][]FieldName *)

\* make(Instructions)
EmptyInstructions == [k \in {} |-> <<>>]

\* FieldName.AddPrefix
AddPrefix(f, prefix) == prefix \o f

\* the []FieldName stored under key, nil (empty) when key is absent
Lookup(t, key) == IF key \in DOMAIN t THEN t[key] ELSE <<>>

\* tags[instruction] = append(tags[instruction], name), creating the key
AppendField(t, key, name) ==
    [k \in DOMAIN t \cup {key} |->
        IF k = key THEN Append(Lookup(t, k), name) ELSE t[k]]

-----------------------------------------------------------------------------
(* TaGo.GetFromField *)

\* the directives of a raw tag: strings.SplitSeq(tagsAsString, ";")
SplitDirectivesFirstOnly(tagsAsString) == SplitN2(tagsAsString, ";")

SplitDirectives(tagsAsString) == Split(tagsAsString, ";")

\* parts[i] = strings.TrimSpace(parts[i]) for every part
TrimParts(parts) == [i \in 1..Len(parts) |-> TrimSpace(parts[i])]

\* one directive normalised: cut at the first "=", trim the parts, join with "="
InstructionString(instruction) ==
    Join(TrimParts(SplitN2(instruction, "=")), <<"=">>)

\* the test that skips an empty directive
KeepAlways(instructionString) == TRUE

Keep(instructionString) == instructionString # <<>>

RECURSIVE ParseDirectives(_, _, _)
\* the loop over the directives, accumulating into acc
ParseDirectives(directives, name, acc) ==
    IF Len(directives) = 0 THEN acc
    ELSE LET s == InstructionString(Head(directives)) IN
         ParseDirectives(Tail(directives), name,
                         IF Keep(s) THEN AppendField(acc, s, name) ELSE acc)

\* GetFromField on a field with the given name and raw tag text
GetFromField(name, tag) ==
    IF tag # <<>>
    THEN ParseDirectives(SplitDirectives(tag), name, EmptyInstructions)
    ELSE EmptyInstructions

-----------------------------------------------------------------------------
(* typeToElem *)

\* A reflect.Type is [wrap, base]: wrap lists the type constructors applied,
\* outermost first ("ptr", "slice", "array"), base names what they wrap:
\* a struct type or the basic type "string".
BasicType == "string"

\* reflect.Type.Kind
Kind(t) ==
    IF t.wrap # <<>> THEN Head(t.wrap)
    ELSE IF t.base = BasicType THEN "string" ELSE "struct"

\* reflect.Type.Elem
Elem(t) == [t EXCEPT !.wrap = Tail(@)]

\* typeToElem without the test for a pointer inside the slice
typeToElemNoInnerPtr(t) ==
    LET t1 == IF Kind(t) = "ptr" THEN Elem(t) ELSE t
    IN  IF Kind(t1) = "slice" THEN Elem(t1) ELSE t1

typeToElem(t) ==
    LET t1 == IF Kind(t) = "ptr" THEN Elem(t) ELSE t
    IN  IF Kind(t1) = "slice"
        THEN LET t2 == Elem(t1)
             IN  IF Kind(t2) = "ptr" THEN Elem(t2) ELSE t2
        ELSE t1

-----------------------------------------------------------------------------
(* Values the variables of the operations that are not running hold *)

NoType == [wrap |-> <<>>, base |-> BasicType]

ParserIdle ==
    /\ raw = <<>>
    /\ tags = EmptyInstructions
    /\ instr = <<>>
    /\ again = EmptyInstructions

TypeIdle ==
    /\ tyIn = NoType
    /\ tyOut = NoType

ApplyIdle ==
    /\ instructions = EmptyInstructions
    /\ mapping = {}
    /\ todo = {}
    /\ cur = <<>>
    /\ rest = <<>>
    /\ calls = <<>>

WalkIdle ==
    /\ types = <<>>
    /\ model = NoType
    /\ separator = <<>>
    /\ query = <<>>
    /\ stack = <<>>
    /\ result = EmptyInstructions
    /\ exists = FALSE

-----------------------------------------------------------------------------
(* The parser run on every raw tag, then on one of its own instructions *)

\* the field whose tag is parsed
ParsedField == <<"F">>

ParseInit ==
    /\ op = "GetFromField"
    /\ pc = "parse"
    /\ raw \in StringsUpTo(MaxLen)
    /\ tags = EmptyInstructions
    /\ instr = <<>>
    /\ again = EmptyInstructions
    /\ TypeIdle
    /\ ApplyIdle
    /\ WalkIdle

ParseTag ==
    /\ pc = "parse"
    /\ tags' = GetFromField(ParsedField, raw)
    /\ pc' = "parsed"
    /\ UNCHANGED <<op, raw, instr, again, typeVars, applyVars, walkVars>>

Reparse ==
    /\ pc = "parsed"
    /\ \E n \in DOMAIN tags :
        /\ instr' = n
        /\ again' = GetFromField(ParsedField, n)
    /\ pc' = "reparsed"
    /\ UNCHANGED <<op, raw, tags, typeVars, applyVars, walkVars>>

ParseNext == ParseTag \/ Reparse

SpecParse == ParseInit /\ [][ParseNext]_vars

-----------------------------------------------------------------------------
(* typeToElem run on every wrapping of a struct type and of a basic type *)

\* deepest nesting of type constructors typeToElem is run on
MaxWrap == 3

TypeCtors == {"ptr", "slice", "array"}

WrapsUpTo(n) == UNION {[1..k -> TypeCtors] : k \in 0..n}

TypeInit ==
    /\ op = "typeToElem"
    /\ pc = "unwrap"
    /\ tyIn \in [wrap : WrapsUpTo(MaxWrap), base : {BasicType, "T"}]
    /\ tyOut = NoType
    /\ ParserIdle
    /\ ApplyIdle
    /\ WalkIdle

Unwrap ==
    /\ pc = "unwrap"
    /\ tyOut' = typeToElem(tyIn)
    /\ pc' = "unwrapped"
    /\ UNCHANGED <<op, tyIn, parserVars, applyVars, walkVars>>

TypeNext == Unwrap

SpecType == TypeInit /\ [][TypeNext]_vars

-----------------------------------------------------------------------------
(* Apply and ApplyOne run on every small index and mapping.  Every mapped  *)
(* instruction has an action of its own, which records its invocation.     *)

\* longest field list of an instruction in the index handed to Apply
MaxFields == 2

ApplyInstructionSet == {<<"p">>, <<"q">>}

ApplyFieldSet == {<<"F">>, <<"G">>}

FieldListsUpTo(n) == UNION {[1..k -> ApplyFieldSet] : k \in 0..n}

\* every index whose keys are among ApplyInstructionSet
ApplyIndexes ==
    UNION {[keys -> FieldListsUpTo(MaxFields)] : keys \in SUBSET ApplyInstructionSet}

ApplyInit ==
    /\ instructions \in ApplyIndexes
    /\ \/ /\ op = "Apply"
          /\ mapping \in SUBSET ApplyInstructionSet
          /\ pc = "range"
       \/ /\ op = "ApplyOne"
          /\ \E i \in ApplyInstructionSet : mapping = {i}
          /\ pc = "one"
    /\ todo = mapping
    /\ cur = <<>>
    /\ rest = <<>>
    /\ calls = <<>>
    /\ ParserIdle
    /\ TypeIdle
    /\ WalkIdle

\* Apply: the range over instructionMapping produces its next pair, in any
\* order, and looks the instruction up in the index
ApplyRange ==
    /\ op = "Apply"
    /\ pc = "range"
    /\ \E instruction \in todo :
        /\ todo' = todo \ {instruction}
        /\ IF instruction \in DOMAIN instructions
           THEN /\ cur' = instruction
                /\ rest' = instructions[instruction]
                /\ pc' = "fields"
           ELSE UNCHANGED <<cur, rest, pc>>
    /\ UNCHANGED <<op, instructions, mapping, calls, parserVars, typeVars, walkVars>>

\* Apply: action(field) for the next field of the list
ApplyCallSkipsRepeated ==
    /\ op = "Apply"
    /\ pc = "fields"
    /\ rest # <<>>
    /\ calls' = IF \E k \in 1..Len(calls) : calls[k] = <<cur, Head(rest)>>
                THEN calls
                ELSE Append(calls, <<cur, Head(rest)>>)
    /\ rest' = Tail(rest)
    /\ UNCHANGED <<op, pc, instructions, mapping, todo, cur, parserVars, typeVars, walkVars>>

ApplyCall ==
    /\ op = "Apply"
    /\ pc = "fields"
    /\ rest # <<>>
    /\ calls' = Append(calls, <<cur, Head(rest)>>)
    /\ rest' = Tail(rest)
    /\ UNCHANGED <<op, pc, instructions, mapping, todo, cur, parserVars, typeVars, walkVars>>

\* Apply: the field list is exhausted, back to the range over the mapping
ApplyFieldsDone ==
    /\ op = "Apply"
    /\ pc = "fields"
    /\ rest = <<>>
    /\ pc' = "range"
    /\ UNCHANGED <<op, instructions, mapping, todo, cur, rest, calls,
                   parserVars, typeVars, walkVars>>

\* Apply: the mapping is exhausted
ApplyReturn ==
    /\ op = "Apply"
    /\ pc = "range"
    /\ todo = {}
    /\ pc' = "done"
    /\ UNCHANGED <<op, instructions, mapping, todo, cur, rest, calls,
                   parserVars, typeVars, walkVars>>

\* ApplyOne: look instructionToCheck up in the index
ApplyOneLookup ==
    /\ op = "ApplyOne"
    /\ pc = "one"
    /\ \E instructionToCheck \in todo :
        /\ todo' = {}
        /\ IF instructionToCheck \in DOMAIN instructions
           THEN /\ cur' = instructionToCheck
                /\ rest' = instructions[instructionToCheck]
                /\ pc' = "fields"
           ELSE /\ pc' = "done"
                /\ UNCHANGED <<cur, rest>>
    /\ UNCHANGED <<op, instructions, mapping, calls, parserVars, typeVars, walkVars>>

\* ApplyOne: action(field) for the next field of the list
ApplyOneCall ==
    /\ op = "ApplyOne"
    /\ pc = "fields"
    /\ rest # <<>>
    /\ calls' = Append(calls, <<cur, Head(rest)>>)
    /\ rest' = Tail(rest)
    /\ UNCHANGED <<op, pc, instructions, mapping, todo, cur, parserVars, typeVars, walkVars>>

\* ApplyOne: the field list is exhausted
ApplyOneReturn ==
    /\ op = "ApplyOne"
    /\ pc = "fields"
    /\ rest = <<>>
    /\ pc' = "done"
    /\ UNCHANGED <<op, instructions, mapping, todo, cur, rest, calls,
                   parserVars, typeVars, walkVars>>

ApplyNext ==
    \/ ApplyRange
    \/ ApplyCall
    \/ ApplyFieldsDone
    \/ ApplyReturn
    \/ ApplyOneLookup
    \/ ApplyOneCall
    \/ ApplyOneReturn

SpecApply == ApplyInit /\ [][ApplyNext]_vars

-----------------------------------------------------------------------------
(* Instructions.concat, Instruction.Key and the type graph *)

\* every value of the list with the prefix added
Prefixed(values, prefix) ==
    [k \in 1..Len(values) |-> AddPrefix(values[k], prefix)]

\* Instructions.concat putting the new values in front of the recorded ones
concatInFront(t, other, prefix) ==
    [key \in DOMAIN t \cup DOMAIN other |->
        Prefixed(Lookup(other, key), prefix) \o Lookup(t, key)]

\* Instructions.concat: the net effect of the range over other, whose
\* iteration order cannot matter since each key is updated on its own
concat(t, other, prefix) ==
    [key \in DOMAIN t \cup DOMAIN other |->
        Lookup(t, key) \o Prefixed(Lookup(other, key), prefix)]

\* Instruction.Key
Key(i) == TrimSpace(SplitN2(i, "=")[1])

\* The struct types of the modelled programs.  A and C are distinct types
\* declared under the same name in two packages that are both called models.
StructIds == {"A", "B", "C"}

\* what reflect.Type.String prints for a named type
TypeName(base) ==
    CASE base = "A" -> "models.T"
      [] base = "B" -> "models.U"
      [] base = "C" -> "models.T"
      [] OTHER -> base

\* reflect.Type.String: the constructors, then the name of what they wrap
TypeString(t) == <<t.wrap, TypeName(t.base)>>

Wrapped(w, b) == [wrap |-> w, base |-> b]

\* The declared fields: [struct, name, tag, wrap]; the type a field wraps is
\* what varies from one modelled program to the next.
FieldSlots ==
    << [struct |-> "A", name |-> <<"X">>, wrap |-> <<>>,
        tag |-> <<"p">>],
       [struct |-> "A", name |-> <<"Y">>, wrap |-> <<"slice", "ptr">>,
        tag |-> <<"q", ";", "p">>],
       [struct |-> "B", name |-> <<"X">>, wrap |-> <<"ptr">>,
        tag |-> <<"p">>],
       [struct |-> "B", name |-> <<"Z">>, wrap |-> <<"array">>,
        tag |-> <<" ", "q", " ", ";">>],
       [struct |-> "C", name |-> <<"Y">>, wrap |-> <<"slice">>,
        tag |-> <<"r", ";", "p", "=", "t", "r", "u", "e", ";", "r">>] >>

FieldTargets == StructIds \cup {BasicType}

\* the fields of struct s, in declaration order, when slot k wraps target[k]
FieldsOf(s, target) ==
    LET mine == SelectSeq([k \in 1..Len(FieldSlots) |-> k],
                          LAMBDA k : FieldSlots[k].struct = s)
    IN  [j \in 1..Len(mine) |->
            [name |-> FieldSlots[mine[j]].name,
             tag  |-> FieldSlots[mine[j]].tag,
             type |-> Wrapped(IF target[mine[j]] = BasicType
                              THEN <<>> ELSE FieldSlots[mine[j]].wrap,
                              target[mine[j]])]]

\* a struct type holds by value the struct types of its fields that are
\* declared without indirection (T or an array of T)
HeldByValue(g, s) ==
    {g[s][k].type.base : k \in {j \in 1..Len(g[s]) :
        /\ g[s][j].type.base \in StructIds
        /\ \A w \in 1..Len(g[s][j].type.wrap) : g[s][j].type.wrap[w] = "array"}}

RECURSIVE Closure(_, _, _, _)
\* the struct types reached from those in from by n or fewer steps of next
Closure(g, next(_, _), from, n) ==
    IF n = 0 THEN from
    ELSE Closure(g, next, from \cup UNION {next(g, s) : s \in from}, n - 1)

\* the compiler rejects a struct type that holds itself by value
Compiles(g) ==
    \A s \in StructIds :
        s \notin Closure(g, HeldByValue, HeldByValue(g, s), Cardinality(StructIds))

\* the struct types the declaration of s mentions
Mentions(g, s) ==
    {g[s][k].type.base : k \in 1..Len(g[s])} \cap StructIds

\* Packages cannot import each other.  A and C, which bear the same name,
\* are declared in two packages; B is declared in one of them.
ImportsAcyclic(g) ==
    \E packageOfB \in {"a/models", "b/models"} :
        LET package == [s \in StructIds |->
                           CASE s = "A" -> "a/models"
                             [] s = "B" -> packageOfB
                             [] s = "C" -> "b/models"]
            imports(p, q) == \E s, u \in StructIds :
                                /\ package[s] = p
                                /\ package[u] = q
                                /\ u \in Mentions(g, s)
        IN  ~(imports("a/models", "b/models") /\ imports("b/models", "a/models"))

\* reflect.Type.NumField and reflect.Type.Field of a struct type
NumField(t) == Len(types[t.base])

Field(t, i) == types[t.base][i]

-----------------------------------------------------------------------------
(* Get, GetNested and Has run on every modelled program *)

\* depth of recursion at which the goroutine stack is exhausted
MaxDepth == 4

Separators == {<<".">>, <<":", ":">>}

Queries == {<<"p">>, <<"p", "=", "t", "r", "u", "e">>, <<"r">>}

Models == {Wrapped(<<"ptr">>, "A"), Wrapped(<<>>, "B"), Wrapped(<<"slice", "ptr">>, "C")}

Frame(t, prefix) ==
    [modelType |-> t, i |-> 1, prefix |-> prefix, tags |-> EmptyInstructions]

Top == stack[Len(stack)]

WalkInit ==
    /\ \E target \in [1..Len(FieldSlots) -> FieldTargets] :
        /\ types = [s \in StructIds |-> FieldsOf(s, target)]
        /\ Compiles(types)
        /\ ImportsAcyclic(types)
    /\ model \in Models
    /\ \/ /\ op = "GetNested"
          /\ separator \in Separators
          /\ query = <<>>
       \/ /\ op = "Get"
          /\ separator = <<>>
          /\ query = <<>>
       \/ /\ op = "Has"
          /\ separator = <<>>
          /\ query \in Queries
    /\ pc = "call"
    /\ stack = <<>>
    /\ result = EmptyInstructions
    /\ exists = FALSE
    /\ ParserIdle
    /\ TypeIdle
    /\ ApplyIdle

\* Get is entered, by the caller or by Has: tags is made, the type unwrapped
GetEnter ==
    /\ op \in {"Get", "Has"}
    /\ pc = "call"
    /\ stack' = <<Frame(typeToElem(model), <<>>)>>
    /\ pc' = "walk"
    /\ UNCHANGED <<op, types, model, separator, query, result, exists,
                   parserVars, typeVars, applyVars>>

\* Get: one iteration of the loop over the fields
GetField ==
    /\ op \in {"Get", "Has"}
    /\ pc = "walk"
    /\ Top.i <= NumField(Top.modelType)
    /\ LET modelField == Field(Top.modelType, Top.i)
           fieldTags == GetFromField(modelField.name, modelField.tag)
       IN  stack' = <<[Top EXCEPT !.tags = concat(@, fieldTags, <<>>),
                                  !.i = @ + 1]>>
    /\ UNCHANGED <<op, pc, types, model, separator, query, result, exists,
                   parserVars, typeVars, applyVars>>

\* Get returns tags; Has goes on with them
GetReturn ==
    /\ op \in {"Get", "Has"}
    /\ pc = "walk"
    /\ Top.i > NumField(Top.modelType)
    /\ result' = Top.tags
    /\ stack' = <<>>
    /\ pc' = IF op = "Has" THEN "lookup" ELSE "done"
    /\ UNCHANGED <<op, types, model, separator, query, exists,
                   parserVars, typeVars, applyVars>>

\* Has reporting an instruction with the same key as present
HasReturnByKey ==
    /\ op = "Has"
    /\ pc = "lookup"
    /\ exists' = (\E k \in DOMAIN result : Key(k) = Key(query))
    /\ pc' = "done"
    /\ UNCHANGED <<op, types, model, separator, query, stack, result,
                   parserVars, typeVars, applyVars>>

\* Has: the lookup of instructionToCheck in what Get returned
HasReturn ==
    /\ op = "Has"
    /\ pc = "lookup"
    /\ exists' = (query \in DOMAIN result)
    /\ pc' = "done"
    /\ UNCHANGED <<op, types, model, separator, query, stack, result,
                   parserVars, typeVars, applyVars>>

\* GetNested calls getNested with the empty prefix
GetNestedEnter ==
    /\ op = "GetNested"
    /\ pc = "call"
    /\ stack' = <<Frame(typeToElem(model), <<>>)>>
    /\ pc' = "walk"
    /\ UNCHANGED <<op, types, model, separator, query, result, exists,
                   parserVars, typeVars, applyVars>>

\* the prefix of a nested call that forgets the prefix of its caller
NestedPrefixOwnNameOnly(prefix, name, sep) == name \o sep

\* the prefix getNested hands to the nested call
NestedPrefix(prefix, name, sep) == prefix \o name \o sep

\* the test of getNested without its guard against self-reference
RecursesIntoEveryStruct(fieldType, modelType) == Kind(fieldType) = "struct"

\* the test of getNested that lets it recurse into a field of unwrapped type
\* fieldType while it traverses modelType
Recurses(fieldType, modelType) ==
    /\ TypeString(fieldType) # TypeString(modelType)
    /\ Kind(fieldType) = "struct"

\* getNested: one iteration of the loop over the fields, up to the nested
\* call when there is one.  The call needs a stack frame: at MaxDepth there
\* is none left and the program dies.
NestedField ==
    /\ op = "GetNested"
    /\ pc = "walk"
    /\ Top.i <= NumField(Top.modelType)
    /\ LET modelField == Field(Top.modelType, Top.i)
           fieldTags == GetFromField(modelField.name, modelField.tag)
           merged == concat(Top.tags, fieldTags, Top.prefix)
           fieldType == typeToElem(modelField.type)
       IN  IF Recurses(fieldType, Top.modelType)
           THEN IF Len(stack) < MaxDepth
                THEN /\ stack' = Append(
                            [stack EXCEPT ![Len(stack)].tags = merged],
                            Frame(fieldType,
                                  NestedPrefix(Top.prefix, modelField.name, separator)))
                     /\ pc' = pc
                ELSE /\ stack' = [stack EXCEPT ![Len(stack)].tags = merged]
                     /\ pc' = "overflow"
           ELSE /\ stack' = [stack EXCEPT ![Len(stack)].tags = merged,
                                          ![Len(stack)].i = @ + 1]
                /\ pc' = pc
    /\ UNCHANGED <<op, types, model, separator, query, result, exists,
                   parserVars, typeVars, applyVars>>

\* getNested returns to getNested: the nested tags are concatenated with no
\* prefix and the loop of the caller goes on
NestedReturn ==
    /\ op = "GetNested"
    /\ pc = "walk"
    /\ Len(stack) > 1
    /\ Top.i > NumField(Top.modelType)
    /\ LET caller == Len(stack) - 1
       IN  stack' = [SubSeq(stack, 1, caller) EXCEPT
                        ![caller].tags = concat(@, Top.tags, <<>>),
                        ![caller].i = @ + 1]
    /\ UNCHANGED <<op, pc, types, model, separator, query, result, exists,
                   parserVars, typeVars, applyVars>>

\* the outermost getNested returns, and GetNested with it
GetNestedReturn ==
    /\ op = "GetNested"
    /\ pc = "walk"
    /\ Len(stack) = 1
    /\ Top.i > NumField(Top.modelType)
    /\ result' = Top.tags
    /\ stack' = <<>>
    /\ pc' = "done"
    /\ UNCHANGED <<op, types, model, separator, query, exists,
                   parserVars, typeVars, applyVars>>

WalkNext ==
    \/ GetEnter
    \/ GetField
    \/ GetReturn
    \/ HasReturn
    \/ GetNestedEnter
    \/ NestedField
    \/ NestedReturn
    \/ GetNestedReturn

SpecWalk == WalkInit /\ [][WalkNext]_vars

-----------------------------------------------------------------------------
(* Properties of the parser *)

\* the characters of s that are not white space, in order
NoBlanks(s) == SelectSeq(s, LAMBDA ch : ~IsSpace(ch))

\* position k of the raw tag holds the first character of a directive that is
\* not white space: nothing but blanks lies between it and the ";" before it
StartsDirective(k) ==
    /\ raw[k] \notin {";", " "}
    /\ \A j \in 1..(k-1) : (\A m \in j..(k-1) : raw[m] # ";") => raw[j] = " "

RECURSIVE TotalEntries(_, _)
\* the number of field names stored under the keys in ks
TotalEntries(t, ks) ==
    IF ks = {} THEN 0
    ELSE LET k == CHOOSE x \in ks : TRUE
         IN  Len(t[k]) + TotalEntries(t, ks \ {k})

\* the text of raw between two ";" (or an end) that holds position k
DirectiveAt(k) ==
    LET lo == CHOOSE j \in 1..k :
                  /\ \A m \in j..k : raw[m] # ";"
                  /\ (j = 1 \/ raw[j-1] = ";")
        hi == CHOOSE j \in k..Len(raw) :
                  /\ \A m \in k..j : raw[m] # ";"
                  /\ (j = Len(raw) \/ raw[j+1] = ";")
    IN  SubSeq(raw, lo, hi)

\* C4: the index GetFromField returns never has the empty string as a key;
\* a directive that is blank is dropped, every other directive is kept (one
\* field entry per such directive, under a key that is the directive up to
\* white space), and a blank raw tag yields an index with no instructions.
C4_NoEmptyInstruction ==
    pc \in {"parsed", "reparsed"} =>
        /\ <<>> \notin DOMAIN tags
        /\ TotalEntries(tags, DOMAIN tags)
             = Cardinality({k \in 1..Len(raw) : StartsDirective(k)})
        /\ \A k \in 1..Len(raw) : StartsDirective(k) =>
             \E key \in DOMAIN tags : NoBlanks(key) = NoBlanks(DirectiveAt(k))
        /\ (\A k \in 1..Len(raw) : raw[k] = " ") => DOMAIN tags = {}

\* C4 witness: a raw tag with a doubled ";" and a directive that is kept
C4_Witness ==
    /\ pc = "parsed"
    /\ \E k \in 1..(Len(raw)-1) : raw[k] = ";" /\ raw[k+1] = ";"
    /\ DOMAIN tags # {}

\* C5: parsing an instruction the parser produced, as a raw tag, yields
\* exactly one instruction, and it is that instruction.
C5_ReparseIsIdentity ==
    pc = "reparsed" =>
        /\ DOMAIN again = {instr}
        /\ again[instr] = <<ParsedField>>

\* C5 witness: an instruction whose value holds a "=" was parsed again
C5_Witness ==
    /\ pc = "reparsed"
    /\ \E i, j \in 1..Len(instr) : i < j /\ instr[i] = "=" /\ instr[j] = "="
    /\ \E k \in 1..Len(raw) : raw[k] = " "

-----------------------------------------------------------------------------
(* Properties of typeToElem *)

\* C7 as stated: T, *T, []T, []*T and an array of T all yield T.
C7_AsStated ==
    (pc = "unwrapped" /\ tyIn.wrap \in {<<>>, <<"ptr">>, <<"slice">>,
                                        <<"slice", "ptr">>, <<"array">>})
        => tyOut = Wrapped(<<>>, tyIn.base)

\* C7 amended: typeToElem unwraps at most one pointer, then at most one
\* slice, then at most one pointer inside the slice, so T, *T, []T, []*T,
\* *[]T and *[]*T yield T; an array is not unwrapped: an array type is
\* returned unchanged and a pointer to an array yields the array; a type
\* that is not wrapped is returned unchanged.
C7_SliceOnly ==
    pc = "unwrapped" =>
        /\ tyOut.base = tyIn.base
        /\ \E n \in 0..3 :
             /\ n <= Len(tyIn.wrap)
             /\ tyOut.wrap = SubSeq(tyIn.wrap, n+1, Len(tyIn.wrap))
        /\ tyIn.wrap \in {<<>>, <<"ptr">>, <<"slice">>, <<"slice", "ptr">>,
                          <<"ptr", "slice">>, <<"ptr", "slice", "ptr">>}
             => tyOut.wrap = <<>>
        /\ (tyIn.wrap # <<>> /\ Head(tyIn.wrap) = "array") => tyOut = tyIn
        /\ (Len(tyIn.wrap) >= 2 /\ SubSeq(tyIn.wrap, 1, 2) = <<"ptr", "array">>)
             => tyOut.wrap = Tail(tyIn.wrap)

\* C7 witness: an array of a struct type came back as the array
C7_Witness ==
    /\ pc = "unwrapped"
    /\ tyIn = Wrapped(<<"array">>, "T")
    /\ tyOut = tyIn

-----------------------------------------------------------------------------
(* Properties of Apply and ApplyOne *)

\* the fields the action of instruction i was invoked with, in order
CallsFor(i) ==
    LET mine == SelectSeq(calls, LAMBDA c : c[1] = i)
    IN  [k \in 1..Len(mine) |-> mine[k][2]]

\* C3: when Apply or ApplyOne returns, the action of every mapped
\* instruction that is a key of the index has been invoked once per entry of
\* its list, duplicates included, in list order, and no other action has
\* been invoked.
C3_OncePerFieldInOrder ==
    pc = "done" =>
        \A i \in ApplyInstructionSet :
            CallsFor(i) = IF i \in mapping /\ i \in DOMAIN instructions
                          THEN instructions[i]
                          ELSE <<>>

\* C3 witness: Apply has returned after invoking an action twice for a field
\* listed twice, with an index key that is not mapped
C3_Witness ==
    /\ pc = "done"
    /\ op = "Apply"
    /\ \E i \in mapping :
        /\ i \in DOMAIN instructions
        /\ Len(instructions[i]) = 2
        /\ instructions[i][1] = instructions[i][2]
        /\ CallsFor(i) = instructions[i]
    /\ \E i \in DOMAIN instructions : i \notin mapping

-----------------------------------------------------------------------------
(* Properties of Get, GetNested and Has *)

\* the struct type Get or GetNested traverses first
Root == typeToElem(model)

\* the struct types of the fields of s, each behind the wrapping typeToElem
\* removes
StructsOfFields(g, s) ==
    {typeToElem(g[s][k].type).base : k \in {j \in 1..Len(g[s]) :
        Kind(typeToElem(g[s][j].type)) = "struct"}}

\* the same without the fields that refer to s itself
OtherStructsOfFields(g, s) == StructsOfFields(g, s) \ {s}

\* the struct types met from s on, s included
Reachable(s) == Closure(types, StructsOfFields, {s}, Cardinality(StructIds))

\* s lies on a cycle of the field graph that is not a direct self-reference
OnIndirectCycle(s) ==
    s \in Closure(types, OtherStructsOfFields, OtherStructsOfFields(types, s),
                  Cardinality(StructIds))

\* s has a field whose unwrapped type is s
SelfReferencing(s) == s \in StructsOfFields(types, s)

\* every instruction some field declares
DeclaredInstructions ==
    UNION {DOMAIN GetFromField(FieldSlots[k].name, FieldSlots[k].tag) :
              k \in 1..Len(FieldSlots)}

\* a path of field names written with the separator between the names
PathString(names) == Join(names, separator)

\* recursion into a field is due when its unwrapped type is a struct type
\* other than the one being traversed
OtherStruct(fieldType, modelType) ==
    Kind(fieldType) = "struct" /\ fieldType # modelType

NoRecursion(fieldType, modelType) == FALSE

RECURSIVE Encounters(_, _, _, _, _, _)
\* The entries for instruction n met by a depth-first walk, in declaration
\* order, of the fields k, k+1, ... of struct s reached along the path names,
\* descending where descend allows and at most d levels further.
Encounters(descend(_, _), s, k, names, n, d) ==
    IF k > Len(types[s]) THEN <<>>
    ELSE LET f == types[s][k]
             path == Append(names, f.name)
             own == [j \in 1..Len(Lookup(GetFromField(f.name, f.tag), n)) |->
                        PathString(path)]
             fieldType == typeToElem(f.type)
             nested == IF d > 0 /\ descend(fieldType, Wrapped(<<>>, s))
                       THEN Encounters(descend, fieldType.base, 1, path, n, d - 1)
                       ELSE <<>>
         IN  own \o nested \o Encounters(descend, s, k + 1, names, n, d)

RECURSIVE PathsDeclaring(_, _, _, _)
\* every path, of at most d + 1 fields, from struct s reached along names to
\* a field that declares instruction n, written with the separator
PathsDeclaring(s, names, n, d) ==
    UNION { LET f == types[s][k]
                path == Append(names, f.name)
            IN  (IF n \in DOMAIN GetFromField(f.name, f.tag)
                 THEN {PathString(path)} ELSE {})
                \cup
                (IF d > 0 /\ Kind(typeToElem(f.type)) = "struct"
                 THEN PathsDeclaring(typeToElem(f.type).base, path, n, d - 1)
                 ELSE {})
          : k \in 1..Len(types[s]) }

\* C1: every field name in the index GetNested returns is the path from the
\* root to a field that declares the instruction it is listed under: the
\* names of the enclosing fields, root first, each followed by the
\* separator, then the name of the field; fields of the root are listed
\* under their bare names.
C1_FullPath ==
    (op = "GetNested" /\ pc = "done") =>
        /\ \A n \in DOMAIN result : \A k \in 1..Len(result[n]) :
              result[n][k] \in PathsDeclaring(Root.base, <<>>, n, MaxDepth - 1)
        /\ \A k \in 1..NumField(Root) :
              \A n \in DOMAIN GetFromField(Field(Root, k).name, Field(Root, k).tag) :
                 /\ n \in DOMAIN result
                 /\ \E j \in 1..Len(result[n]) : result[n][j] = Field(Root, k).name

\* C1 witness: GetNested returned an entry two levels below the root
C1_Witness ==
    /\ op = "GetNested"
    /\ pc = "done"
    /\ <<"r">> \in DOMAIN result
    /\ \E k \in 1..Len(result[<<"r">>]) :
          result[<<"r">>][k] = <<"X", ".", "X", ".", "Y">>

\* C2 as stated: GetNested on a struct type that refers to itself, with no
\* other cycle in its field graph, does not run out of stack, never calls
\* itself for the type it is traversing, and returns exactly the entries of
\* the fields reached without passing through a self-reference.
C2_SelfReferenceExact ==
    (op = "GetNested" /\ SelfReferencing(Root.base)
        /\ \A s \in Reachable(Root.base) : ~OnIndirectCycle(s)) =>
        /\ pc # "overflow"
        /\ \A j \in 2..Len(stack) : stack[j].modelType # stack[j-1].modelType
        /\ pc = "done" =>
              \A n \in DeclaredInstructions \cup DOMAIN result :
                 Lookup(result, n)
                    = Encounters(OtherStruct, Root.base, 1, <<>>, n, MaxDepth)

\* no two struct types met from s on print the same name
NamesDiffer(s) ==
    \A u, v \in Reachable(s) : TypeName(u) = TypeName(v) => u = v

\* The part of C2 the code keeps: the same, for programs in which no two
\* struct types of the traversal print the same name.
SelfReferenceExactWhenNamesDiffer == NamesDiffer(Root.base) => C2_SelfReferenceExact

\* C6: Has returns true exactly when some field of the model's own struct
\* type declares the instruction, as written: a declaration on a field of a
\* nested struct does not count, nor one with the same key and another value.
C6_HasIsFlatMembership ==
    (op = "Has" /\ pc = "done") =>
        exists = (\E k \in 1..NumField(Root) :
                     query \in DOMAIN GetFromField(Field(Root, k).name,
                                                   Field(Root, k).tag))

\* C6 witness: Has returned false for an instruction that only a field of a
\* nested struct declares
C6_Witness ==
    /\ op = "Has"
    /\ pc = "done"
    /\ query = <<"r">>
    /\ ~exists
    /\ Root.base # "C"
    /\ "C" \in StructsOfFields(types, Root.base)

\* C8: the field list of every instruction in the index Get or GetNested
\* returns is in the order of a depth-first walk in declaration order: the
\* entry of a field, then the entries of the fields nested in it, then those
\* of the next field; nothing recorded is dropped or moved.
C8_EncounterOrder ==
    (op \in {"Get", "GetNested"} /\ pc = "done") =>
        \A n \in DeclaredInstructions \cup DOMAIN result :
            /\ Lookup(result, n)
                 = IF op = "Get"
                   THEN Encounters(NoRecursion, Root.base, 1, <<>>, n, 0)
                   ELSE Encounters(Recurses, Root.base, 1, <<>>, n, MaxDepth)
            /\ n \in DOMAIN result => result[n] # <<>>

\* C8 witness: GetNested returned a list holding a field, then fields nested
\* in it, and another holding a nested field before a later sibling
C8_Witness ==
    /\ op = "GetNested"
    /\ pc = "done"
    /\ <<"p">> \in DOMAIN result
    /\ result[<<"p">>] = << <<"X">>, <<"X", ".", "X">>, <<"X", ".", "Y">> >>
    /\ <<"q">> \in DOMAIN result
    /\ result[<<"q">>] = << <<"X", ".", "Y">>, <<"Z">> >>

\* C9 as stated: getNested calls itself for a field exactly when the
\* unwrapped type of the field is a struct type other than the type it is
\* traversing.
C9_RecursesIffOtherStruct ==
    [][ (op = "GetNested" /\ pc = "walk" /\ Top.i <= NumField(Top.modelType)) =>
          ( (Len(stack') > Len(stack) \/ pc' = "overflow")
            <=> OtherStruct(typeToElem(Field(Top.modelType, Top.i).type),
                            Top.modelType) ) ]_vars

\* some activation of getNested traverses a type on an indirect cycle
InsideIndirectCycle(stk) ==
    \E j \in 1..Len(stk) : OnIndirectCycle(stk[j].modelType.base)

\* C10: once getNested traverses a struct type that lies on an indirect
\* cycle (A has a field of B, B a field of A), it traverses one for ever
\* after and GetNested never returns: the recursion goes on until the stack
\* is exhausted.  On a type graph whose only cycles are direct
\* self-references the stack is never exhausted.
C10_IndirectCycleNeverReturns ==
    /\ [][ (op = "GetNested" /\ InsideIndirectCycle(stack)) =>
             (InsideIndirectCycle(stack') /\ pc' # "done") ]_vars
    /\ [](op = "GetNested" =>
             /\ (pc = "walk" /\ OnIndirectCycle(Root.base)) => InsideIndirectCycle(stack)
             /\ (\A s \in Reachable(Root.base) : ~OnIndirectCycle(s))
                   => pc # "overflow")

\* C10 witness: GetNested on a type on an indirect cycle has exhausted the
\* stack, each activation traversing another type than its caller
C10_Witness ==
    /\ op = "GetNested"
    /\ pc = "overflow"
    /\ OnIndirectCycle(Root.base)
    /\ Len(stack) = MaxDepth
    /\ \A j \in 2..Len(stack) : stack[j].modelType # stack[j-1].modelType

=============================================================================
